---- MODULE Spec2Model ----
(***************************************************************************)
(* A model of swarm_connect: the transport adapter (app/services/          *)
(* swarm_api.py) and the wallet endpoints (app/api/endpoints/wallet.py).   *)
(* The adapter is stateless, so the state is the invocation in progress:   *)
(* which operation was called, with what arguments, what the Bee node      *)
(* answered, what the clock read, and what the operation returned or       *)
(* raised.                                                                 *)
(***************************************************************************)
EXTENDS Integers, Sequences, FiniteSets, TLC

VARIABLES
    pc,     \* "idle" | "waiting" (outbound request in flight) | "done"
    op,     \* the operation invoked last
    arg,    \* its arguments
    node,   \* the node's answer to the outbound request
    clock,  \* the readings of datetime.now(), one per processed stamp
    adapter, \* the outcome of the adapter call a wallet endpoint made
    ret,    \* the outcome: [exc |-> class or "none", val |-> value]
    response, \* the HTTP response of a wallet endpoint
    nreq,   \* outbound requests issued by the invocation
    timeout \* the timeout, in seconds, of the request in flight; 0 is none

vars == <<pc, op, arg, node, clock, adapter, ret, response, nreq, timeout>>

(***************************************************************************)
(* JSON / Python values.  t is the Python type, n the number a numeric     *)
(* value or a string of decimal digits stands for, s the text of any       *)
(* other string.                                                           *)
(***************************************************************************)
Absent   == [t |-> "absent", n |-> 0, s |-> ""]     \* key not in the dict
Null     == [t |-> "null",   n |-> 0, s |-> ""]     \* None
JTrue    == [t |-> "bool",   n |-> 1, s |-> ""]
JFalse   == [t |-> "bool",   n |-> 0, s |-> ""]
JInt(i)  == [t |-> "int",    n |-> i, s |-> ""]
\* an integer beyond the range of datetime arithmetic, such as 10**12
JHuge    == [t |-> "hugeint", n |-> 0, s |-> ""]
\* the string str(i), such as "60"
JNumStr(i) == [t |-> "numstr", n |-> i, s |-> ""]
\* any other string; JStr("") is the empty string
JStr(x)  == [t |-> "str",    n |-> 0, s |-> x]
\* float('inf'): what json.loads gives for 1e400 or Infinity
JInf     == [t |-> "inf",    n |-> 0, s |-> ""]
\* a list of n elements
JList(k) == [t |-> "list",   n |-> k, s |-> ""]

\* Python truthiness: bool(x)
Truthy(x) ==
    CASE x.t = "null"    -> FALSE
      [] x.t = "bool"    -> x.n = 1
      [] x.t = "int"     -> x.n # 0
      [] x.t = "hugeint" -> TRUE
      [] x.t = "numstr"  -> TRUE
      [] x.t = "str"     -> x.s # ""
      [] x.t = "inf"     -> TRUE
      [] x.t = "list"    -> x.n # 0
      [] OTHER           -> FALSE

\* a or b
PyOr(a, b) == IF Truthy(a) THEN a ELSE b

\* dict.get(key, default)
Get(d, key, default) == IF d[key] = Absent THEN default ELSE d[key]

\* int(x): [exc, n, huge]
PyInt(x) ==
    CASE x.t \in {"int", "bool", "numstr"} -> [exc |-> "none", n |-> x.n, huge |-> FALSE]
      [] x.t = "hugeint" -> [exc |-> "none", n |-> 0, huge |-> TRUE]
      [] x.t = "str"     -> [exc |-> "ValueError", n |-> 0, huge |-> FALSE]
      [] x.t = "inf"     -> [exc |-> "OverflowError", n |-> 0, huge |-> FALSE]
      [] OTHER           -> [exc |-> "TypeError", n |-> 0, huge |-> FALSE]

\* whether x < k and x > k are defined for an int k
Orderable(x) == x.t \in {"int", "bool", "hugeint", "inf"}

\* x < k for an int k
PyLt(x, k) == x.t \in {"int", "bool"} /\ x.n < k

\* x > k for an int k
PyGt(x, k) == x.t \in {"hugeint", "inf"} \/ (x.t \in {"int", "bool"} /\ x.n > k)

\* str(x)
PyStr(x) ==
    CASE x.t = "int"     -> JNumStr(x.n)
      [] x.t = "numstr"  -> x
      [] x.t = "str"     -> x
      [] x.t = "null"    -> JStr("None")
      [] x.t = "bool"    -> JStr(IF x.n = 1 THEN "True" ELSE "False")
      [] x.t = "hugeint" -> JStr("1000000000000")
      [] x.t = "inf"     -> JStr("inf")
      [] OTHER           -> JStr("[...]")

(***************************************************************************)
(* Exceptions: the classes each exception class is an instance of.         *)
(***************************************************************************)
Bases(e) ==
    CASE e \in {"Timeout", "ConnectionError", "HTTPError"} ->
             {e, "RequestException", "OSError", "Exception"}
      \* requests >= 2.27: response.json() raises requests' JSONDecodeError
      [] e = "RequestsJSONDecodeError" ->
             {e, "RequestException", "OSError", "ValueError", "Exception"}
      \* older requests: json's own JSONDecodeError
      [] e = "JSONDecodeError" -> {e, "ValueError", "Exception"}
      [] e = "ValidationError" -> {e, "ValueError", "Exception"}
      [] e = "FileNotFoundError" -> {e, "OSError", "Exception"}
      [] e = "OverflowError" -> {e, "ArithmeticError", "Exception"}
      [] e = "KeyError" -> {e, "LookupError", "Exception"}
      [] OTHER -> {e, "Exception"}

IsInstance(e, cls) == e # "none" /\ cls \in Bases(e)

Return(v) == [exc |-> "none", val |-> v]
Raise(e)  == [exc |-> e, val |-> Null]

(***************************************************************************)
(* calculate_usable_status                                                 *)
(***************************************************************************)
MIN_TTL_IMMUTABLE == 3600
MIN_TTL_MUTABLE == 60
MIN_DEPTH == 16
MAX_DEPTH == 32

\* stamp.get("immutableFlag", False) or stamp.get("immutable", False)
is_immutable(stamp) ==
    PyOr(Get(stamp, "immutableFlag", JFalse), Get(stamp, "immutable", JFalse))

min_ttl_swapped(stamp) ==
    IF Truthy(is_immutable(stamp)) THEN MIN_TTL_MUTABLE ELSE MIN_TTL_IMMUTABLE

min_ttl(stamp) ==
    IF Truthy(is_immutable(stamp)) THEN MIN_TTL_IMMUTABLE ELSE MIN_TTL_MUTABLE

\* the body of the try block
usable_try(stamp) ==
    IF ~Truthy(Get(stamp, "exists", JTrue)) THEN Return(FALSE)
    ELSE LET batch_ttl == PyInt(Get(stamp, "batchTTL", JInt(0)))
             depth == Get(stamp, "depth", JInt(0))
         IN  IF batch_ttl.exc # "none" THEN Raise(batch_ttl.exc)
             ELSE IF ~batch_ttl.huge /\ batch_ttl.n <= 0 THEN Return(FALSE)
             ELSE IF ~batch_ttl.huge /\ batch_ttl.n < min_ttl(stamp) THEN Return(FALSE)
             ELSE IF ~Orderable(depth) THEN Raise("TypeError")
             ELSE IF PyLt(depth, MIN_DEPTH) \/ PyGt(depth, MAX_DEPTH) THEN Return(FALSE)
             ELSE Return(TRUE)

calculate_usable_status(stamp) ==
    LET r == usable_try(stamp)
    IN  IF IsInstance(r.exc, "ValueError") \/ IsInstance(r.exc, "TypeError")
        THEN Return(FALSE)
        ELSE r

(***************************************************************************)
(* datetime: a reading of the clock is [year, month, day, hour, minute,    *)
(* second] in UTC.  The microsecond is left out: batch_ttl is a whole      *)
(* number of seconds, so it never carries, and strftime drops it.          *)
(***************************************************************************)
MAXORDINAL == 3652059      \* date.max.toordinal(): 9999-12-31
DI400Y == 146097           \* days in 400 years
DI100Y == 36524            \* days in 100 years
DI4Y == 1461               \* days in 4 years

DAYS_IN_MONTH == <<31, 28, 31, 30, 31, 30, 31, 31, 30, 31, 30, 31>>
DAYS_BEFORE_MONTH == <<0, 31, 59, 90, 120, 151, 181, 212, 243, 273, 304, 334>>

is_leap(y) == y % 4 = 0 /\ (y % 100 # 0 \/ y % 400 = 0)

days_before_year(year) ==
    LET y == year - 1 IN y * 365 + (y \div 4) - (y \div 100) + (y \div 400)

days_before_month(year, month) ==
    DAYS_BEFORE_MONTH[month] + (IF month > 2 /\ is_leap(year) THEN 1 ELSE 0)

\* datetime.toordinal()
ymd2ord(year, month, day) ==
    days_before_year(year) + days_before_month(year, month) + day

\* date.fromordinal(): <<year, month, day>>
ord2ymd(ordinal) ==
    LET n0   == ordinal - 1
        n400 == n0 \div DI400Y
        r400 == n0 % DI400Y
        n100 == r400 \div DI100Y
        r100 == r400 % DI100Y
        n4   == r100 \div DI4Y
        r4   == r100 % DI4Y
        n1   == r4 \div 365
        n    == r4 % 365
        year == n400 * 400 + 1 + n100 * 100 + n4 * 4 + n1
        leapyear == n1 = 3 /\ (n4 # 24 \/ n100 = 3)
        m0   == (n + 50) \div 32
        p0   == DAYS_BEFORE_MONTH[m0] + (IF m0 > 2 /\ leapyear THEN 1 ELSE 0)
        month == IF p0 > n THEN m0 - 1 ELSE m0
        preceding == IF p0 > n
                     THEN p0 - (DAYS_IN_MONTH[month]
                                + (IF month = 2 /\ leapyear THEN 1 ELSE 0))
                     ELSE p0
    IN  IF n1 = 4 \/ n100 = 4 THEN <<year - 1, 12, 31>>
        ELSE <<year, month, n - preceding + 1>>

\* now_utc + datetime.timedelta(seconds=batch_ttl), batch_ttl = [n, huge]
datetime_add(now_utc, batch_ttl) ==
    IF batch_ttl.huge THEN Raise("OverflowError")
    ELSE
    LET total == now_utc.hour * 3600 + now_utc.minute * 60 + now_utc.second
                 + batch_ttl.n
        days  == ymd2ord(now_utc.year, now_utc.month, now_utc.day) + (total \div 86400)
        secs  == total % 86400
        ymd   == ord2ymd(days)
    IN  IF 0 < days /\ days <= MAXORDINAL
        THEN Return([year |-> ymd[1], month |-> ymd[2], day |-> ymd[3],
                     hour |-> secs \div 3600, minute |-> (secs % 3600) \div 60,
                     second |-> secs % 60])
        ELSE Raise("OverflowError")

Digit(d) == <<"0", "1", "2", "3", "4", "5", "6", "7", "8", "9">>[d + 1]
Pad2(k) == Digit((k \div 10) % 10) \o Digit(k % 10)
Pad4(k) == Pad2(k \div 100) \o Pad2(k % 100)

\* strftime('%Y-%m-%d-%H-%M')
strftime(dt) ==
    Pad4(dt.year) \o "-" \o Pad2(dt.month) \o "-" \o Pad2(dt.day) \o "-"
        \o Pad2(dt.hour) \o "-" \o Pad2(dt.minute)

(***************************************************************************)
(* Stamp records, as the node returns them: a dict from key to value.      *)
(***************************************************************************)
StampKeys == {"batchID", "utilization", "label", "depth", "amount", "bucketDepth",
              "blockNumber", "immutableFlag", "immutable", "batchTTL", "exists"}

EmptyStamp == [k \in StampKeys |-> Absent]

(***************************************************************************)
(* get_all_stamps_processed: one iteration of the loop, then the loop.     *)
(***************************************************************************)
Emit(p) == [exc |-> "none", emit |-> TRUE,  out |-> p]
Skip    == [exc |-> "none", emit |-> FALSE, out |-> Null]
Fail(e) == [exc |-> e,      emit |-> FALSE, out |-> Null]

clamp_ttl_none(batch_ttl) == batch_ttl

\* if batch_ttl < 0: batch_ttl = 0
clamp_ttl(batch_ttl) ==
    IF ~batch_ttl.huge /\ batch_ttl.n < 0 THEN [batch_ttl EXCEPT !.n = 0] ELSE batch_ttl

processed_record_defaulting(stamp, batch_id, batch_ttl, usable, expiration_str) ==
    [batchID |-> batch_id,
     utilization |-> Get(stamp, "utilization", JInt(0)),
     usable |-> usable,
     label |-> Get(stamp, "label", Null),
     depth |-> Get(stamp, "depth", JInt(0)),
     amount |-> Get(stamp, "amount", JStr("")),
     bucketDepth |-> Get(stamp, "bucketDepth", JInt(0)),
     blockNumber |-> Get(stamp, "blockNumber", JInt(0)),
     immutableFlag |-> Get(stamp, "immutableFlag", JFalse),
     batchTTL |-> batch_ttl,
     exists |-> Get(stamp, "exists", JFalse),
     expectedExpiration |-> expiration_str]

\* the processed_stamp dict
processed_record(stamp, batch_id, batch_ttl, usable, expiration_str) ==
    [batchID |-> batch_id,
     utilization |-> Get(stamp, "utilization", Null),
     usable |-> usable,
     label |-> Get(stamp, "label", Null),
     depth |-> Get(stamp, "depth", Null),
     amount |-> PyStr(Get(stamp, "amount", JStr(""))),
     bucketDepth |-> Get(stamp, "bucketDepth", Null),
     blockNumber |-> Get(stamp, "blockNumber", Null),
     immutableFlag |-> Get(stamp, "immutableFlag", Null),
     batchTTL |-> batch_ttl,
     exists |-> Get(stamp, "exists", JTrue),
     expectedExpiration |-> expiration_str]

\* the body of the loop's try block
process_try(stamp, now_utc) ==
    LET batch_id == Get(stamp, "batchID", Null)
        conv     == PyInt(Get(stamp, "batchTTL", JInt(0)))
        batch_ttl == clamp_ttl(conv)
        expiration_time_utc == datetime_add(now_utc, batch_ttl)
        usable   == calculate_usable_status(stamp)
    IN  IF ~Truthy(batch_id) THEN Skip
        ELSE IF conv.exc # "none" THEN Fail(conv.exc)
        ELSE IF expiration_time_utc.exc # "none" THEN Fail(expiration_time_utc.exc)
        ELSE IF usable.exc # "none" THEN Fail(usable.exc)
        ELSE Emit(processed_record(stamp, batch_id, batch_ttl.n, usable.val,
                                   strftime(expiration_time_utc.val)))

\* try ... except (ValueError, TypeError, KeyError): continue
process_stamp(stamp, now_utc) ==
    LET r == process_try(stamp, now_utc)
    IN  IF \E c \in {"ValueError", "TypeError", "KeyError"} : IsInstance(r.exc, c)
        THEN Skip
        ELSE r

\* for stamp in all_stamps: ...; the i-th iteration reads clk[i]
RECURSIVE process_loop(_, _, _, _)
process_loop(all_stamps, clk, i, processed_stamps) ==
    IF i > Len(all_stamps) THEN Return(processed_stamps)
    ELSE LET r == process_stamp(all_stamps[i], clk[i])
         IN  IF r.exc # "none" THEN Raise(r.exc)
             ELSE process_loop(all_stamps, clk, i + 1,
                               IF r.emit THEN Append(processed_stamps, r.out)
                               ELSE processed_stamps)

(***************************************************************************)
(* The node's answer to one outbound request:                              *)
(*   net     "ok", or "timeout" / "connerr" when no response arrives       *)
(*   status  the HTTP status code of the response                          *)
(*   kind    what response.json() parses the body to: "object", "array",   *)
(*           "scalar" (null, a string, a number) or "notjson"              *)
(*   fields  the keys of a body that is an object                          *)
(*   items   the elements of the body when it is an array, or of its       *)
(*           "batches" value when that is a list                           *)
(*   content response.content, the raw bytes                               *)
(*   jsonerr the class response.json() raises for a body that is not JSON  *)
(***************************************************************************)
BodyKeys == {"batches", "batchID", "reference"}

NoFields == [k \in BodyKeys |-> Absent]

NoAnswer == [net |-> "none", status |-> 0, kind |-> "notjson", fields |-> NoFields,
             items |-> <<>>, content |-> "", jsonerr |-> "JSONDecodeError"]

\* requests.get / post / patch with a timeout: the exception raised, or "none"
send(ans) ==
    CASE ans.net = "timeout" -> "Timeout"
      [] ans.net = "connerr" -> "ConnectionError"
      [] OTHER -> "none"

\* response.raise_for_status(): HTTPError for 4xx and 5xx
raise_for_status(ans) ==
    IF 400 <= ans.status /\ ans.status < 600 THEN "HTTPError" ELSE "none"

\* response.json(): the exception raised, or "none"
json(ans) == IF ans.kind = "notjson" THEN ans.jsonerr ELSE "none"

get_all_stamps_only_dict(ans) ==
    IF send(ans) # "none" THEN Raise(send(ans))
    ELSE IF raise_for_status(ans) # "none" THEN Raise(raise_for_status(ans))
    ELSE IF json(ans) # "none" THEN Raise(json(ans))
    ELSE IF ans.kind = "object" /\ ans.fields["batches"].t = "list" THEN Return(ans.items)
    ELSE Return(<<>>)

\* get_all_stamps: both except clauses re-raise what they caught
get_all_stamps(ans) ==
    IF send(ans) # "none" THEN Raise(send(ans))
    ELSE IF raise_for_status(ans) # "none" THEN Raise(raise_for_status(ans))
    ELSE IF json(ans) # "none" THEN Raise(json(ans))
    ELSE IF ans.kind = "object" /\ ans.fields["batches"] # Absent
         THEN IF ans.fields["batches"].t = "list" THEN Return(ans.items)
              ELSE Return(<<>>)
    ELSE IF ans.kind = "array" THEN Return(ans.items)
    ELSE Return(<<>>)

\* get_all_stamps_processed: get_all_stamps() is called outside any try
get_all_stamps_processed(ans, clk) ==
    LET all_stamps == get_all_stamps(ans)
    IN  IF all_stamps.exc # "none" THEN all_stamps
        ELSE process_loop(all_stamps.val, clk, 1, <<>>)

\* except RequestException: raise
\* except (ValueError, KeyError) as e: raise ValueError(...) from e
reraise(r) ==
    IF IsInstance(r.exc, "RequestException") THEN r
    ELSE IF IsInstance(r.exc, "ValueError") \/ IsInstance(r.exc, "KeyError")
         THEN Raise("ValueError")
    ELSE r

\* the try block of purchase_postage_stamp and of upload_data_to_swarm:
\* response_json.get(key), then "if not value: raise ValueError"
required_field_try(ans, key) ==
    IF send(ans) # "none" THEN Raise(send(ans))
    ELSE IF raise_for_status(ans) # "none" THEN Raise(raise_for_status(ans))
    ELSE IF json(ans) # "none" THEN Raise(json(ans))
    ELSE IF ans.kind # "object" THEN Raise("AttributeError")
    ELSE IF ~Truthy(Get(ans.fields, key, Null)) THEN Raise("ValueError")
    ELSE Return(ans.fields[key])

purchase_postage_stamp(ans) == reraise(required_field_try(ans, "batchID"))

upload_data_to_swarm(ans) == reraise(required_field_try(ans, "reference"))

extend_try_strict(ans, stamp_id) ==
    IF send(ans) # "none" THEN Raise(send(ans))
    ELSE IF raise_for_status(ans) # "none" THEN Raise(raise_for_status(ans))
    ELSE IF json(ans) # "none" THEN Raise(json(ans))
    ELSE IF ans.kind # "object" THEN Raise("AttributeError")
    ELSE IF ans.fields["batchID"] = Absent THEN Raise("ValueError")
    ELSE Return(ans.fields["batchID"])

\* the try block of extend_postage_stamp:
\* response_json.get("batchID", stamp_id)
extend_try(ans, stamp_id) ==
    IF send(ans) # "none" THEN Raise(send(ans))
    ELSE IF raise_for_status(ans) # "none" THEN Raise(raise_for_status(ans))
    ELSE IF json(ans) # "none" THEN Raise(json(ans))
    ELSE IF ans.kind # "object" THEN Raise("AttributeError")
    ELSE Return(Get(ans.fields, "batchID", stamp_id))

extend_postage_stamp(ans, stamp_id) == reraise(extend_try(ans, stamp_id))

download_404_as_http_error(ans) ==
    IF send(ans) # "none" THEN Raise(send(ans))
    ELSE IF raise_for_status(ans) # "none" THEN Raise(raise_for_status(ans))
    ELSE Return(JStr(ans.content))

\* download_data_from_swarm: FileNotFoundError is no RequestException, so the
\* except clause lets it through; a RequestException is re-raised
download_data_from_swarm(ans) ==
    IF send(ans) # "none" THEN Raise(send(ans))
    ELSE IF ans.status = 404 THEN Raise("FileNotFoundError")
    ELSE IF raise_for_status(ans) # "none" THEN Raise(raise_for_status(ans))
    ELSE Return(JStr(ans.content))

(***************************************************************************)
(* The wallet endpoints.  get_wallet_info and get_chequebook_info are not  *)
(* part of the adapter source at hand; an outcome of either is             *)
(*   exc, msg  the exception raised and its text, or "none"                *)
(*   mapping   whether the value returned is a dict                        *)
(*   fields    its keys                                                    *)
(***************************************************************************)
InfoKeys == {"walletAddress", "bzzBalance", "chequebookAddress", "availableBalance",
             "totalBalance"}

NoInfo == [k \in InfoKeys |-> Absent]

FETCH_FAILED(what) == "Failed to fetch " \o what \o " information from Swarm API"
INVALID_RESPONSE == "Invalid response from Swarm API"
UNEXPECTED_ERROR == "An unexpected error occurred"

\* a pydantic field of type str, or Optional[str] when optional
valid_str(v, optional) == v.t \in {"str", "numstr"} \/ (optional /\ v.t = "null")

\* the try block: the log line, then the response model built from the dict
endpoint_try(info, address_key, balance_keys) ==
    IF info.exc # "none" THEN [exc |-> info.exc, msg |-> info.msg, body |-> NoInfo]
    ELSE IF ~info.mapping
         THEN [exc |-> "AttributeError", msg |-> "object has no attribute 'get'",
               body |-> NoInfo]
    ELSE IF info.fields[address_key] = Absent
         THEN [exc |-> "KeyError", msg |-> address_key, body |-> NoInfo]
    ELSE IF ~valid_str(info.fields[address_key], FALSE)
            \/ \E k \in balance_keys : ~valid_str(Get(info.fields, k, Null), TRUE)
         THEN [exc |-> "ValidationError", msg |-> "validation error for response model",
               body |-> NoInfo]
    ELSE [exc |-> "none", msg |-> "",
          body |-> [k \in InfoKeys |->
                       IF k = address_key THEN info.fields[k]
                       ELSE IF k \in balance_keys THEN Get(info.fields, k, Null)
                       ELSE Absent]]

endpoint_except_leaky(r, what) ==
    IF r.exc = "none" THEN [status |-> 200, detail |-> "", body |-> r.body]
    ELSE [status |-> 500, detail |-> r.msg, body |-> NoInfo]

\* the three except clauses, in order
endpoint_except(r, what) ==
    IF r.exc = "none" THEN [status |-> 200, detail |-> "", body |-> r.body]
    ELSE IF IsInstance(r.exc, "RequestException")
         THEN [status |-> 500, detail |-> FETCH_FAILED(what), body |-> NoInfo]
    ELSE IF IsInstance(r.exc, "ValueError")
         THEN [status |-> 500, detail |-> INVALID_RESPONSE, body |-> NoInfo]
    ELSE [status |-> 500, detail |-> UNEXPECTED_ERROR, body |-> NoInfo]

get_wallet(info) ==
    endpoint_except(endpoint_try(info, "walletAddress", {"bzzBalance"}), "wallet")

get_chequebook(info) ==
    endpoint_except(endpoint_try(info, "chequebookAddress",
                                  {"availableBalance", "totalBalance"}), "chequebook")

(***************************************************************************)
(* Inputs.                                                                 *)
(***************************************************************************)
MaxStamps == 2      \* longest list of batches the node returns

TtlValues == {Absent, Null, JInt(-5), JInt(0), JInt(59), JInt(60), JInt(3599),
              JInt(3600), JInt(86400), JInt(31536000), JHuge, JNumStr(3600), JStr("abc"), JInf}
ExistsValues == {Absent, JTrue, JFalse, Null}
FlagValues == {Absent, JTrue, JFalse}
DepthValues == {Absent, Null, JInt(15), JInt(16), JInt(32), JInt(33), JNumStr(20)}

\* the records calculate_usable_status is applied to
UsableStamps ==
    {[EmptyStamp EXCEPT !["batchTTL"] = t, !["exists"] = e, !["immutableFlag"] = f,
                        !["immutable"] = i, !["depth"] = d] :
        t \in TtlValues, e \in ExistsValues, f \in FlagValues,
        i \in {Absent, JTrue}, d \in DepthValues}

\* a record with every optional key, and one with none of them
FullStamp(id, t) ==
    [EmptyStamp EXCEPT !["batchID"] = id, !["batchTTL"] = t,
                       !["utilization"] = JInt(4), !["label"] = JStr("my-label"),
                       !["depth"] = JInt(20), !["amount"] = JInt(1000),
                       !["bucketDepth"] = JInt(16), !["blockNumber"] = JInt(1234567),
                       !["immutableFlag"] = JTrue, !["exists"] = JTrue]
SparseStamp(id, t) == [EmptyStamp EXCEPT !["batchID"] = id, !["batchTTL"] = t]

\* the records of a list of one batch
WideStamps ==
    {FullStamp(id, t) : id \in {Absent, JStr(""), JStr("aa")}, t \in TtlValues}
    \cup {SparseStamp(id, t) : id \in {Null, JStr("bb")}, t \in TtlValues}
    \cup {[FullStamp(JStr("cc"), JInt(60)) EXCEPT !["amount"] = a, !["exists"] = e] :
            a \in {JNumStr(1000), Null}, e \in {JFalse, Null}}

\* the records of a longer list
NarrowStamps ==
    {FullStamp(JStr("aa"), JInt(3600)), SparseStamp(JStr("bb"), JInt(-5)),
     FullStamp(Absent, JInt(60)), SparseStamp(JStr("dd"), JStr("abc")),
     FullStamp(JStr("ee"), JInf), SparseStamp(JStr("ff"), JHuge)}

\* the lists of batches the node returns; every element is a JSON object
StampLists ==
    {<<>>} \cup {<<x>> : x \in WideStamps}
    \cup UNION {[1..k -> NarrowStamps] : k \in 2..MaxStamps}

DateTime(y, mo, d, h, mi, sec) ==
    [year |-> y, month |-> mo, day |-> d, hour |-> h, minute |-> mi, second |-> sec]

\* readings of the clock
Nows == {DateTime(2024, 1, 1, 0, 0, 0), DateTime(2023, 12, 31, 23, 59, 30),
         DateTime(2024, 2, 28, 23, 30, 0), DateTime(2025, 2, 28, 23, 59, 1),
         DateTime(2026, 11, 3, 12, 34, 56)}
NarrowNows == {DateTime(2024, 1, 1, 0, 0, 0), DateTime(2023, 12, 31, 23, 59, 30)}

Clocks(k) == IF k <= 1 THEN [1..k -> Nows] ELSE [1..k -> NarrowNows]

Answer(st, kind, fields, items, content, jsonerr) ==
    [net |-> "ok", status |-> st, kind |-> kind, fields |-> fields, items |-> items,
     content |-> content, jsonerr |-> jsonerr]

\* no response: the timeout expired, or the connection failed
Lost == {[NoAnswer EXCEPT !.net = x] : x \in {"timeout", "connerr"}}

\* 200 OK, 202 Accepted, 304 Not Modified, 404 Not Found, 500 Internal Server Error
PassStatus == {200, 202, 304}
ErrorStatus == {404, 500}

JsonErrors == {"RequestsJSONDecodeError", "JSONDecodeError"}

\* bodies that are no JSON object
Unusable(st) ==
    {Answer(st, "notjson", NoFields, <<>>, "", e) : e \in JsonErrors}
    \cup {Answer(st, k, NoFields, <<>>, "", "JSONDecodeError") : k \in {"array", "scalar"}}

\* answers to GET batches
BatchesAnswers ==
    Lost
    \cup {Answer(st, "notjson", NoFields, <<>>, "", "JSONDecodeError") : st \in ErrorStatus}
    \cup UNION {Unusable(st) : st \in {200}}
    \cup {Answer(200, "object", [NoFields EXCEPT !["batches"] = b], <<>>, "",
                 "JSONDecodeError") : b \in {Absent, Null, JStr("none")}}
    \cup {Answer(st, k, IF k = "object"
                        THEN [NoFields EXCEPT !["batches"] = JList(Len(l))]
                        ELSE NoFields, l, "", "JSONDecodeError") :
            st \in {200, 304}, k \in {"object", "array"}, l \in StampLists}

\* answers to POST stamps/.., PATCH stamps/topup/.. and POST bzz
FieldAnswers(key) ==
    Lost
    \cup {Answer(st, "object", [NoFields EXCEPT ![key] = JStr("b1")], <<>>, "",
                 "JSONDecodeError") : st \in ErrorStatus}
    \cup UNION {Unusable(st) : st \in PassStatus}
    \cup {Answer(st, "object", [NoFields EXCEPT ![key] = v], <<>>, "",
                 "JSONDecodeError") :
            st \in PassStatus, v \in {Absent, Null, JStr(""), JStr("b1"), JStr("b2")}}

\* answers to GET bzz/..
DownloadAnswers ==
    Lost
    \cup {Answer(st, "notjson", NoFields, <<>>, c, "JSONDecodeError") :
            st \in PassStatus \cup ErrorStatus, c \in {"", "data", "{}"}}

\* outcomes of get_wallet_info / get_chequebook_info
InfoOutcomes(address_key, balance_keys) ==
    {[exc |-> e, msg |-> "HTTPConnectionPool(host='bee', port=1633)",
      mapping |-> FALSE, fields |-> NoInfo] : e \in {"Timeout", "ConnectionError", "HTTPError"}}
    \cup {[exc |-> e, msg |-> "Expecting value: line 1 column 1 (char 0)",
           mapping |-> FALSE, fields |-> NoInfo] :
            e \in {"RequestsJSONDecodeError", "JSONDecodeError", "ValueError"}}
    \cup {[exc |-> e, msg |-> "internal detail", mapping |-> FALSE, fields |-> NoInfo] :
            e \in {"KeyError", "AttributeError", "TypeError"}}
    \cup {[exc |-> "none", msg |-> "", mapping |-> FALSE, fields |-> NoInfo]}
    \cup {[exc |-> "none", msg |-> "", mapping |-> TRUE,
           fields |-> [k \in InfoKeys |->
                          IF k = address_key THEN a
                          ELSE IF k \in balance_keys THEN b ELSE Absent]] :
            a \in {Absent, Null, JStr("0xA1"), JStr("0xB2")},
            b \in {Absent, Null, JNumStr(5)}}

NoArg == [id |-> Null, amount |-> 0, depth |-> 0, label |-> Null, stamp |-> EmptyStamp]
NoRet == [exc |-> "pending", val |-> Null]

NoInfoOutcome == [exc |-> "none", msg |-> "", mapping |-> FALSE, fields |-> NoInfo]

NoResponse == [status |-> 0, detail |-> "", body |-> NoInfo]

(***************************************************************************)
(* The state machine.                                                      *)
(***************************************************************************)
Init ==
    /\ pc = "idle"
    /\ op = "none"
    /\ arg = NoArg
    /\ node = NoAnswer
    /\ clock = <<>>
    /\ adapter = NoInfoOutcome
    /\ ret = NoRet
    /\ response = NoResponse
    /\ nreq = 0
    /\ timeout = 0

\* calculate_usable_status(stamp): no outbound request
CalculateUsableStatus ==
    /\ pc = "idle"
    /\ \E stamp \in UsableStamps :
        /\ arg' = [NoArg EXCEPT !.stamp = stamp]
        /\ ret' = calculate_usable_status(stamp)
    /\ pc' = "done"
    /\ op' = "calculate_usable_status"
    /\ UNCHANGED <<node, clock, adapter, response, nreq, timeout>>

AdapterOps == {"get_all_stamps", "get_all_stamps_processed", "purchase_postage_stamp",
               "extend_postage_stamp", "upload_data_to_swarm", "download_data_from_swarm"}

\* the arguments an operation is called with
Args(o) ==
    CASE o = "purchase_postage_stamp" ->
             {[NoArg EXCEPT !.amount = 1000, !.depth = 20, !.label = l] :
                 l \in {Null, JStr("my-label")}}
      [] o = "extend_postage_stamp" ->
             {[NoArg EXCEPT !.id = JStr(i), !.amount = 1000] : i \in {"b1", "b3"}}
      [] o \in {"upload_data_to_swarm", "download_data_from_swarm"} ->
             {[NoArg EXCEPT !.id = JStr(i)] : i \in {"B1", "b3"}}
      [] OTHER -> {NoArg}

\* the timeout= argument of the operation's requests.get / post / patch
request_timeout_none(o) == 0

request_timeout(o) ==
    CASE o \in {"get_all_stamps", "get_all_stamps_processed"} -> 10
      [] o \in {"purchase_postage_stamp", "extend_postage_stamp"} -> 120
      [] OTHER -> 60

retries_on_failure(r) ==
    IF IsInstance(r.exc, "RequestException") /\ nreq < 3 THEN 1 ELSE 0

\* the requests an operation issues after the outcome r of its first one: the
\* request stands in no loop, and every except clause raises
retries(r) == 0

\* where an operation stands after the outcome r of its request
after_request(r) == IF retries(r) = 0 THEN "done" ELSE "waiting"

\* an adapter operation is called and issues its outbound request
Call ==
    /\ pc = "idle"
    /\ \E o \in AdapterOps : \E a \in Args(o) :
        /\ op' = o
        /\ arg' = a
        /\ timeout' = request_timeout(o)
    /\ pc' = "waiting"
    /\ nreq' = nreq + 1
    /\ UNCHANGED <<node, clock, adapter, ret, response>>

\* Each operation below: the request ends (an answer, a connection failure,
\* or the timeout when the request has one) and the operation runs to its end.
GetAllStamps ==
    /\ pc = "waiting" /\ op = "get_all_stamps"
    /\ \E ans \in BatchesAnswers :
        /\ ans.net = "timeout" => timeout > 0
        /\ node' = ans
        /\ ret' = get_all_stamps(ans)
    /\ pc' = after_request(ret')
    /\ nreq' = nreq + retries(ret')
    /\ UNCHANGED <<op, arg, clock, adapter, response, timeout>>

GetAllStampsProcessed ==
    /\ pc = "waiting" /\ op = "get_all_stamps_processed"
    /\ \E ans \in BatchesAnswers : \E clk \in Clocks(Len(ans.items)) :
        /\ ans.net = "timeout" => timeout > 0
        /\ node' = ans
        /\ clock' = clk
        /\ ret' = get_all_stamps_processed(ans, clk)
    /\ pc' = after_request(ret')
    /\ nreq' = nreq + retries(ret')
    /\ UNCHANGED <<op, arg, adapter, response, timeout>>

PurchasePostageStamp ==
    /\ pc = "waiting" /\ op = "purchase_postage_stamp"
    /\ \E ans \in FieldAnswers("batchID") :
        /\ ans.net = "timeout" => timeout > 0
        /\ node' = ans
        /\ ret' = purchase_postage_stamp(ans)
    /\ pc' = after_request(ret')
    /\ nreq' = nreq + retries(ret')
    /\ UNCHANGED <<op, arg, clock, adapter, response, timeout>>

ExtendPostageStamp ==
    /\ pc = "waiting" /\ op = "extend_postage_stamp"
    /\ \E ans \in FieldAnswers("batchID") :
        /\ ans.net = "timeout" => timeout > 0
        /\ node' = ans
        /\ ret' = extend_postage_stamp(ans, arg.id)
    /\ pc' = after_request(ret')
    /\ nreq' = nreq + retries(ret')
    /\ UNCHANGED <<op, arg, clock, adapter, response, timeout>>

UploadDataToSwarm ==
    /\ pc = "waiting" /\ op = "upload_data_to_swarm"
    /\ \E ans \in FieldAnswers("reference") :
        /\ ans.net = "timeout" => timeout > 0
        /\ node' = ans
        /\ ret' = upload_data_to_swarm(ans)
    /\ pc' = after_request(ret')
    /\ nreq' = nreq + retries(ret')
    /\ UNCHANGED <<op, arg, clock, adapter, response, timeout>>

DownloadDataFromSwarm ==
    /\ pc = "waiting" /\ op = "download_data_from_swarm"
    /\ \E ans \in DownloadAnswers :
        /\ ans.net = "timeout" => timeout > 0
        /\ node' = ans
        /\ ret' = download_data_from_swarm(ans)
    /\ pc' = after_request(ret')
    /\ nreq' = nreq + retries(ret')
    /\ UNCHANGED <<op, arg, clock, adapter, response, timeout>>

\* GET /wallet
GetWallet ==
    /\ pc = "idle"
    /\ \E i \in InfoOutcomes("walletAddress", {"bzzBalance"}) :
        /\ adapter' = i
        /\ response' = get_wallet(i)
    /\ op' = "get_wallet"
    /\ pc' = "done"
    /\ UNCHANGED <<arg, node, clock, ret, nreq, timeout>>

\* GET /chequebook/address
GetChequebook ==
    /\ pc = "idle"
    /\ \E i \in InfoOutcomes("chequebookAddress", {"availableBalance", "totalBalance"}) :
        /\ adapter' = i
        /\ response' = get_chequebook(i)
    /\ op' = "get_chequebook"
    /\ pc' = "done"
    /\ UNCHANGED <<arg, node, clock, ret, nreq, timeout>>

\* the outcome is handed to the caller; nothing is kept between invocations
Deliver ==
    /\ pc = "done"
    /\ pc' = "idle"
    /\ op' = "none"
    /\ arg' = NoArg
    /\ node' = NoAnswer
    /\ clock' = <<>>
    /\ adapter' = NoInfoOutcome
    /\ ret' = NoRet
    /\ response' = NoResponse
    /\ nreq' = 0
    /\ timeout' = 0

Next ==
    \/ CalculateUsableStatus
    \/ Call
    \/ GetAllStamps
    \/ GetAllStampsProcessed
    \/ PurchasePostageStamp
    \/ ExtendPostageStamp
    \/ UploadDataToSwarm
    \/ DownloadDataFromSwarm
    \/ GetWallet
    \/ GetChequebook
    \/ Deliver

Spec == Init /\ [][Next]_vars

\* the timeout of the request in flight expires: requests raises Timeout
TimeoutExpires == pc = "waiting" /\ timeout > 0 /\ Next /\ node'.net = "timeout"

\* The node may never answer; the timeout, when there is one, does expire.
FairSpec == Spec /\ WF_vars(TimeoutExpires)

(***************************************************************************)
(* Properties.                                                             *)
(***************************************************************************)
UsableDone == pc = "done" /\ op = "calculate_usable_status"

\* a record whose fields have the types of the data model
WellTyped(stamp) ==
    /\ stamp["exists"] \in {Absent, JTrue, JFalse}
    /\ stamp["batchTTL"].t \in {"int", "hugeint"}
    /\ stamp["immutableFlag"].t = "bool"
    /\ stamp["depth"].t = "int"

TtlAtLeast(v, k) == v.t = "hugeint" \/ (v.t = "int" /\ v.n >= k)

\* the usable status of a well-typed record whose immutability is `immutable`
UsableRule(stamp, immutable) ==
    /\ stamp["exists"] # JFalse
    /\ TtlAtLeast(stamp["batchTTL"], IF immutable THEN 3600 ELSE 60)
    /\ 16 <= stamp["depth"].n /\ stamp["depth"].n <= 32

\* C1 as stated: on a well-typed record calculate_usable_status returns true
\* exactly when exists is not false, batchTTL >= 3600 for a stamp whose
\* immutableFlag is true and >= 60 for one whose immutableFlag is false, and
\* 16 <= depth <= 32.
C1_AsStated ==
    (UsableDone /\ WellTyped(arg.stamp)) =>
        /\ ret.exc = "none"
        /\ ret.val = UsableRule(arg.stamp, arg.stamp["immutableFlag"] = JTrue)

\* C1, amended: the same, with a stamp counted as immutable when its
\* immutableFlag is true or it carries a true "immutable" key.
C1_UsableRule ==
    (UsableDone /\ WellTyped(arg.stamp)) =>
        /\ ret.exc = "none"
        /\ ret.val = UsableRule(arg.stamp, arg.stamp["immutableFlag"] = JTrue
                                            \/ arg.stamp["immutable"] = JTrue)

\* a well-typed stamp of TTL 3599 at the lowest depth, whose immutableFlag is
\* false and whose "immutable" key is true, was found not usable
C1_Witness ==
    /\ UsableDone /\ WellTyped(arg.stamp)
    /\ arg.stamp["immutableFlag"] = JFalse /\ arg.stamp["immutable"] = JTrue
    /\ arg.stamp["batchTTL"] = JInt(3599) /\ arg.stamp["depth"] = JInt(16)
    /\ arg.stamp["exists"] = Absent
    /\ ret = Return(FALSE)

\* C2: calculate_usable_status never propagates an exception: on every record
\* it ends with a boolean, which is false when a conversion of a field failed.
C2_NeverRaises ==
    UsableDone =>
        /\ ret.exc = "none"
        /\ ret.val \in BOOLEAN
        /\ (PyInt(Get(arg.stamp, "batchTTL", JInt(0))).exc # "none" => ret.val = FALSE)

ProcessedDone == pc = "done" /\ op = "get_all_stamps_processed"

\* the node answered with a list of batches, which get_all_stamps returned
BatchesListed ==
    /\ node.net = "ok" /\ node.status \in 200..299
    /\ \/ node.kind = "array"
       \/ node.kind = "object" /\ node.fields["batches"].t = "list"

\* a non-empty batchID, and a batchTTL that is a number or the text of one
HasId(stamp) == stamp["batchID"].t \in {"str", "numstr"} /\ stamp["batchID"] # JStr("")
Convertible(stamp) ==
    stamp["batchTTL"].t \in {"absent", "int", "hugeint", "bool", "numstr"}
KeptRecord(stamp) == HasId(stamp) /\ Convertible(stamp)

BatchIds(records) == [i \in 1..Len(records) |-> records[i].batchID]

\* C3: get_all_stamps_processed returns normally on every list of batches, and
\* its output is the records with a non-empty batchID and convertible fields,
\* in their order.
C3_SkipsOnItsOwn ==
    (ProcessedDone /\ BatchesListed) =>
        /\ ret.exc = "none"
        /\ BatchIds(ret.val) = BatchIds(SelectSeq(node.items, KeptRecord))

\* the positions of the records that are emitted when no iteration fails
EmittedAt(i) ==
    /\ HasId(node.items[i])
    /\ node.items[i]["batchTTL"].t \in {"absent", "int", "bool", "numstr"}
EmittedIdx == SelectSeq([i \in 1..Len(node.items) |-> i], EmittedAt)

\* the TTL of a record in seconds, and the TTL used for the expiration
TtlSeconds(stamp) == IF stamp["batchTTL"] = Absent THEN 0 ELSE stamp["batchTTL"].n
Max0(k) == IF k < 0 THEN 0 ELSE k

\* calendar arithmetic by carries: seconds into minutes, hours and days, then
\* month by month through the calendar
RefLeap(y) == (y % 4 = 0 /\ y % 100 # 0) \/ y % 400 = 0
RefDaysIn(y, m) ==
    IF m = 2 THEN (IF RefLeap(y) THEN 29 ELSE 28)
    ELSE IF m \in {4, 6, 9, 11} THEN 30 ELSE 31

RECURSIVE RefAddDays(_, _, _, _)
RefAddDays(y, m, d, k) ==
    IF d + k <= RefDaysIn(y, m) THEN <<y, m, d + k>>
    ELSE IF m < 12 THEN RefAddDays(y, m + 1, 1, k - (RefDaysIn(y, m) - d + 1))
    ELSE RefAddDays(y + 1, 1, 1, k - (RefDaysIn(y, m) - d + 1))

RefAdd(now, seconds) ==
    LET sec == now.second + seconds
        mi  == now.minute + (sec \div 60)
        h   == now.hour + (mi \div 60)
        ymd == RefAddDays(now.year, now.month, now.day, h \div 24)
    IN  [year |-> ymd[1], month |-> ymd[2], day |-> ymd[3],
         hour |-> h % 24, minute |-> mi % 60, second |-> sec % 60]

RefDigit == [d \in 0..9 |->
    CASE d = 0 -> "0" [] d = 1 -> "1" [] d = 2 -> "2" [] d = 3 -> "3" [] d = 4 -> "4"
      [] d = 5 -> "5" [] d = 6 -> "6" [] d = 7 -> "7" [] d = 8 -> "8" [] OTHER -> "9"]
RefTwo(k) == RefDigit[k \div 10] \o RefDigit[k % 10]
\* YYYY-MM-DD-HH-MM
RefFormat(dt) ==
    RefTwo(dt.year \div 100) \o RefTwo(dt.year % 100) \o "-" \o RefTwo(dt.month)
        \o "-" \o RefTwo(dt.day) \o "-" \o RefTwo(dt.hour) \o "-" \o RefTwo(dt.minute)

\* C4: the expiration string of a processed stamp is the clock reading of its
\* iteration plus max(batchTTL, 0) seconds, formatted YYYY-MM-DD-HH-MM: a
\* negative batchTTL gives the string of batchTTL = 0, and 3600 at
\* 2024-01-01T00:00:00Z gives "2024-01-01-01-00".
C4_Expiration ==
    (ProcessedDone /\ ret.exc = "none") =>
        /\ Len(ret.val) = Len(EmittedIdx)
        /\ \A j \in 1..Len(EmittedIdx) :
            LET now == clock[EmittedIdx[j]]
                ttl == TtlSeconds(node.items[EmittedIdx[j]])
                str == ret.val[j].expectedExpiration
            IN  /\ str = RefFormat(RefAdd(now, Max0(ttl)))
                /\ (now = DateTime(2024, 1, 1, 0, 0, 0) /\ ttl = 3600)
                       => str = "2024-01-01-01-00"
                /\ (now = DateTime(2024, 1, 1, 0, 0, 0) /\ ttl <= 0)
                       => str = "2024-01-01-00-00"
                /\ (now = DateTime(2023, 12, 31, 23, 59, 30) /\ ttl = 59)
                       => str = "2024-01-01-00-00"
                /\ (now = DateTime(2024, 2, 28, 23, 30, 0) /\ ttl = 3600)
                       => str = "2024-02-29-00-30"

\* two stamps processed at different readings: 3600 s from the new year, and
\* a negative TTL, which leaves the reading as it is
C4_Witness ==
    /\ ProcessedDone /\ ret.exc = "none" /\ Len(ret.val) = 2 /\ Len(node.items) = 2
    /\ clock = <<DateTime(2024, 1, 1, 0, 0, 0), DateTime(2023, 12, 31, 23, 59, 30)>>
    /\ node.items[1]["batchTTL"] = JInt(3600) /\ node.items[2]["batchTTL"] = JInt(-5)
    /\ ret.val[1].expectedExpiration = "2024-01-01-01-00"
    /\ ret.val[2].expectedExpiration = "2023-12-31-23-59"

PassedThrough == {"utilization", "label", "depth", "bucketDepth", "blockNumber",
                  "immutableFlag"}

GetDone == pc = "done" /\ op = "get_all_stamps"

\* no response, or a response with a 4xx / 5xx status
TransportFailure == node.net # "ok" \/ node.status \in 400..599
\* no response, or a response whose status is not 2xx
LostOrNon2xx == node.net # "ok" \/ node.status \notin 200..299

IsBatchList == \/ node.kind = "array"
               \/ node.kind = "object" /\ node.fields["batches"].t = "list"

SameOutcome(a, b) == a.exc = b.exc /\ (a.exc = "none" => a.val = b.val)

\* the answer with the same batches in the other shape: {"batches": L} for a
\* bare array L, and L for {"batches": L}
Twin(ans) ==
    IF ans.kind = "array"
    THEN [ans EXCEPT !.kind = "object",
                     !.fields = [NoFields EXCEPT !["batches"] = JList(Len(ans.items))]]
    ELSE [ans EXCEPT !.kind = "array", !.fields = NoFields]

\* what C6 says of the answers that are not failures
C6_Shapes ==
    /\ (GetDone /\ node.net = "ok" /\ node.status \in 200..299 /\ node.kind # "notjson")
           => /\ ret.exc = "none"
              /\ ret.val = IF IsBatchList THEN node.items ELSE <<>>
    /\ (ProcessedDone /\ node.net = "ok" /\ node.status \in 200..299 /\ IsBatchList)
           => SameOutcome(ret, get_all_stamps_processed(Twin(node), clock))

FieldOf(o) == IF o = "purchase_postage_stamp" THEN "batchID" ELSE "reference"

\* C7: when the node answers with a success status and the payload lacks the
\* required field or is otherwise unusable (the field null or empty, the body
\* no JSON object, the body not JSON), purchase_postage_stamp and
\* upload_data_to_swarm fail with a ValueError that is no transport error.
C7_ValidationError ==
    (/\ pc = "done" /\ op \in {"purchase_postage_stamp", "upload_data_to_swarm"}
     /\ node.net = "ok" /\ node.status \in 200..299
     /\ \/ node.kind # "object"
        \/ node.fields[FieldOf(op)] \in {Absent, Null, JStr("")})
        => /\ IsInstance(ret.exc, "ValueError")
           /\ ~IsInstance(ret.exc, "RequestException")

DownloadDone == pc = "done" /\ op = "download_data_from_swarm"

\* what C8 says of a 404 and of a success
C8_NotFoundAndBytes ==
    /\ (DownloadDone /\ node.net = "ok" /\ node.status = 404)
           => /\ ret.exc = "FileNotFoundError"
              /\ ~IsInstance(ret.exc, "RequestException")
    /\ (DownloadDone /\ ~(node.net = "ok" /\ node.status = 404))
           => ret.exc # "FileNotFoundError"
    /\ (DownloadDone /\ node.net = "ok" /\ node.status \in 200..299)
           => ret = Return(JStr(node.content))

\* C8 as stated: a 404 is raised as FileNotFoundError, every other non-2xx
\* status, timeout or connection failure as a transport error, and on success
\* the bytes are returned unchanged.
C8_AsStated ==
    /\ C8_NotFoundAndBytes
    /\ (DownloadDone /\ LostOrNon2xx /\ ~(node.net = "ok" /\ node.status = 404))
           => IsInstance(ret.exc, "RequestException")

\* C8, amended: the same, with "every other 4xx or 5xx status" for "every other
\* non-2xx status".
C8_Download ==
    /\ C8_NotFoundAndBytes
    /\ (DownloadDone /\ TransportFailure /\ ~(node.net = "ok" /\ node.status = 404))
           => IsInstance(ret.exc, "RequestException")

\* the node answered 404 and the download raised FileNotFoundError
C8_Witness ==
    DownloadDone /\ node.net = "ok" /\ node.status = 404 /\ ret.exc = "FileNotFoundError"

EndpointDone == pc = "done" /\ op \in {"get_wallet", "get_chequebook"}

AddressKey(o) == IF o = "get_wallet" THEN "walletAddress" ELSE "chequebookAddress"

\* the fixed messages of an endpoint
GenericDetails(o) ==
    {IF o = "get_wallet" THEN "Failed to fetch wallet information from Swarm API"
                         ELSE "Failed to fetch chequebook information from Swarm API",
     "Invalid response from Swarm API",
     "An unexpected error occurred"}

\* C9: GET /wallet and GET /chequebook/address answer every failure (an
\* exception of the adapter, a result without the address key, a result that
\* is no mapping) with status 500 and one of three fixed messages, chosen by
\* the kind of error and never the text of the exception; the address is
\* answered only when the adapter call succeeded and its result has the key.
C9_Endpoints ==
    EndpointDone =>
        LET r == response
            failed == \/ adapter.exc # "none"
                      \/ ~adapter.mapping
                      \/ adapter.fields[AddressKey(op)] = Absent
        IN  /\ r.status \in {200, 500}
            /\ failed => r.status = 500
            /\ r.status = 200 => r.body[AddressKey(op)] = adapter.fields[AddressKey(op)]
            /\ r.status = 500 =>
                /\ r.detail \in GenericDetails(op)
                /\ r.body = NoInfo
                /\ adapter.exc # "none" => r.detail # adapter.msg
                /\ IsInstance(adapter.exc, "RequestException")
                       => r.detail \notin {"Invalid response from Swarm API",
                                           "An unexpected error occurred"}
                /\ adapter.exc \in {"KeyError", "AttributeError", "TypeError"}
                       => r.detail = "An unexpected error occurred"
                /\ adapter.exc \in {"ValueError", "JSONDecodeError"}
                       => r.detail = "Invalid response from Swarm API"

\* the adapter returned a mapping without the address, and the endpoint
\* answered 500 with the generic message
C9_Witness ==
    /\ EndpointDone /\ op = "get_wallet" /\ adapter.exc = "none" /\ adapter.mapping
    /\ adapter.fields["walletAddress"] = Absent
    /\ response.status = 500 /\ response.detail = "An unexpected error occurred"

ExtendDone == pc = "done" /\ op = "extend_postage_stamp"

\* what C10 says of a success status: the body is a JSON object
C10_Fallback ==
    (ExtendDone /\ node.net = "ok" /\ node.status \in 200..299 /\ node.kind = "object")
        => /\ ret.exc = "none"
           /\ ret.val = IF node.fields["batchID"] = Absent THEN arg.id
                        ELSE node.fields["batchID"]

AdapterInvoked == op \in AdapterOps

\* one request, with a timeout, while the operation waits; one request, and a
\* result or an error, when it has ended; an error when the request failed
C11_OneRequest ==
    /\ pc = "waiting" => (AdapterInvoked /\ nreq = 1 /\ timeout > 0)
    /\ (pc = "done" /\ AdapterInvoked) =>
        /\ nreq = 1
        /\ ret.exc # "pending"
        /\ TransportFailure => ret.exc # "none"

====
